---- MODULE Spec2Model ----
(***************************************************************************)
(* Model of scripts/cluster.ts: the content filter, the tokenizer, the     *)
(* entity extractor, TF-IDF, the similarity scorer, the greedy cluster     *)
(* builder (clusterArticles), the deduplicator (areSameTopic) and the      *)
(* quota selector (selectBestClusters), run by cluster().                  *)
(*                                                                         *)
(* Texts are strings and are scanned character by character, as the code   *)
(* does with String.includes and the tokenizer's regular expressions.      *)
(* Real numbers are fixed point: TF-IDF weights in units of 1/WeightScale, *)
(* similarities in units of 1/SimScale.  Time is in whole hours.           *)
(* Objects are held by reference, as in the code: an article is its index  *)
(* in rawData.articles, a cluster its index in the list clusterArticles    *)
(* returns (cluster k has id "cluster-k").                                 *)
(***************************************************************************)
EXTENDS Integers, Sequences, FiniteSets, Bags, TLC

VARIABLES
    rawFile,       \* raw-articles.json on disk
    pc,            \* position of cluster() in its code
    articles,      \* rawData.articles: the article objects, by reference 1..n
    now,           \* Date.now(), in hours
    filtered,      \* clusterArticles: references of the articles that passed the filter
    documents,     \* clusterArticles: token sequence of each filtered article
    entities,      \* clusterArticles: entity set of each filtered article
    vectors,       \* clusterArticles: TF-IDF vector of each filtered article
    i,             \* clusterArticles: index of the outer loop (from 1)
    assigned,      \* clusterArticles: indices already put in a cluster
    clusters,      \* clusterArticles: the clusters built so far
    multiSource,   \* selectBestClusters: multi-source clusters, sorted (references)
    singleSource,  \* selectBestClusters: single-source clusters, sorted (references)
    selected,      \* selectBestClusters: the clusters accepted so far (references)
    catIdx,        \* selectBestClusters: index in TARGET_CLUSTERS' entries
    pos,           \* selectBestClusters: index in the list being walked
    added,         \* selectBestClusters: accepted in the current category
    rejected,      \* selectBestClusters: clusters logged as "Doublon ignoré"
    output,        \* the content of clustered-articles.json, or NoFile
    previous       \* what an earlier run over the same file produced, or NoRun

vars == <<rawFile, pc, articles, now, filtered, documents, entities, vectors, i, assigned,
          clusters, multiSource, singleSource, selected, catIdx, pos, added,
          rejected, output, previous>>

-----------------------------------------------------------------------------
(* Bounds of the model *)

\* longest corpus read from raw-articles.json
MaxArticles == 8

-----------------------------------------------------------------------------
(* Fixed-point units *)

WeightScale == 100
SimScale == 1000

-----------------------------------------------------------------------------
(* Static configuration *)

Categories == <<"geopolitique", "economie", "politique">>

TARGET_CLUSTERS == [geopolitique |-> 4, economie |-> 1, politique |-> 1]

EXCLUDED_KEYWORDS ==
    { "football", "soccer", "cricket", "rugby", "tennis", "basketball", "golf",
      "match", "goal", "scored", "league", "championship", "tournament", "cup",
      "premier league", "la liga", "serie a", "bundesliga", "champions league",
      "world cup", "euro", "olympic", "olympics", "athlete", "player", "coach",
      "team", "club", "stadium", "referee", "penalty", "offside", "halftime",
      "mbappe", "mbappé", "ronaldo", "messi", "haaland", "real madrid", "barcelona",
      "manchester", "liverpool", "arsenal", "chelsea", "psg", "bayern",
      "t20", "icc", "odi", "test match", "wicket", "batsman", "bowler",
      "celebrity", "movie", "film", "actor", "actress", "singer", "concert",
      "album", "grammy", "oscar", "emmy", "netflix", "disney", "streaming",
      "reality show", "kardashian", "taylor swift", "beyonce" }

GEO_ENTITIES ==
    [ ukraine |-> {"ukraine", "ukrainian", "ukrainien", "kiev", "kyiv", "kharkiv", "zelensky", "zelenskyy"},
      russia |-> {"russia", "russian", "russie", "russe", "moscow", "moscou", "kremlin", "putin", "poutine"},
      usa |-> {"united states", "états-unis", "etats-unis", "usa", "american", "américain", "washington", "white house", "maison blanche", "trump", "biden"},
      china |-> {"china", "chinese", "chine", "chinois", "beijing", "pékin", "xi jinping"},
      israel |-> {"israel", "israeli", "israël", "israélien", "tel aviv", "jerusalem", "netanyahu"},
      palestine |-> {"palestine", "palestinian", "palestinien", "gaza", "hamas", "west bank", "cisjordanie"},
      iran |-> {"iran", "iranian", "iranien", "tehran", "téhéran", "khamenei"},
      syria |-> {"syria", "syrian", "syrie", "syrien", "damascus", "damas", "assad", "sdf", "kurde", "kurdish"},
      france |-> {"france", "french", "français", "paris", "macron", "élysée"},
      germany |-> {"germany", "german", "allemagne", "allemand", "berlin", "scholz"},
      uk |-> {"united kingdom", "royaume-uni", "britain", "british", "britannique", "london", "londres", "starmer", "sunak"},
      eu |-> {"european union", "union européenne", "brussels", "bruxelles", "eu", "ue"},
      nato |-> {"nato", "otan", "alliance atlantique"},
      un |-> {"united nations", "nations unies", "onu", "un"},
      minneapolis |-> {"minneapolis", "minnesota", "border patrol", "ice", "immigration"},
      greenland |-> {"greenland", "groenland", "denmark", "danemark"},
      panama |-> {"panama", "canal"},
      taiwan |-> {"taiwan", "taïwan", "taipei"},
      north_korea |-> {"north korea", "corée du nord", "pyongyang", "kim jong"},
      sudan |-> {"sudan", "soudan", "khartoum"},
      myanmar |-> {"myanmar", "birmanie", "burma"},
      algeria |-> {"algeria", "algérie", "alger", "algiers"},
      iraq |-> {"iraq", "irak", "baghdad", "bagdad"},
      india |-> {"india", "indian", "inde", "indien", "indienne", "new delhi", "delhi", "modi"},
      japan |-> {"japan", "japanese", "japon", "japonais", "tokyo"},
      south_korea |-> {"south korea", "corée du sud", "seoul", "séoul"},
      australia |-> {"australia", "australian", "australie", "australien", "canberra", "sydney"},
      brazil |-> {"brazil", "brazilian", "brésil", "brésilien", "brasilia", "lula"},
      mexico |-> {"mexico", "mexican", "mexique", "mexicain"},
      turkey |-> {"turkey", "turkish", "turquie", "turc", "ankara", "erdogan"},
      saudi_arabia |-> {"saudi", "saoudite", "riyadh", "riyad", "mbs"},
      chile |-> {"chile", "chilean", "chili", "chilien", "santiago"},
      oman |-> {"oman", "omani", "omanais", "muscat", "mascate"} ]

STOP_WORDS ==
    { "le", "la", "les", "un", "une", "des", "du", "de", "et", "en", "au", "aux",
      "à", "ce", "ces", "cette", "que", "qui", "quoi", "dont", "où", "sur", "sous",
      "par", "pour", "avec", "sans", "dans", "est", "sont", "ont", "être", "avoir",
      "the", "a", "an", "and", "or", "but", "in", "on", "at", "to", "for", "of",
      "with", "by", "from", "is", "are", "was", "were", "be", "been", "being",
      "have", "has", "had", "will", "would", "could", "should", "may", "might",
      "this", "that", "these", "those", "it", "its", "as", "after", "before",
      "news", "live", "update", "breaking", "latest", "new", "nouveau", "nouvelle" }

-----------------------------------------------------------------------------
(* Strings *)

\* String.prototype.toLowerCase, on the letters the modelled texts use
UpperToLower ==
    [ c \in {"A", "B", "C", "D", "E", "F", "G", "H", "I", "J", "K", "L", "M", "N",
             "O", "P", "Q", "R", "S", "T", "U", "V", "W", "X", "Y", "Z", "É"} |->
        CASE c = "A" -> "a" [] c = "B" -> "b" [] c = "C" -> "c" [] c = "D" -> "d"
          [] c = "E" -> "e" [] c = "F" -> "f" [] c = "G" -> "g" [] c = "H" -> "h"
          [] c = "I" -> "i" [] c = "J" -> "j" [] c = "K" -> "k" [] c = "L" -> "l"
          [] c = "M" -> "m" [] c = "N" -> "n" [] c = "O" -> "o" [] c = "P" -> "p"
          [] c = "Q" -> "q" [] c = "R" -> "r" [] c = "S" -> "s" [] c = "T" -> "t"
          [] c = "U" -> "u" [] c = "V" -> "v" [] c = "W" -> "w" [] c = "X" -> "x"
          [] c = "Y" -> "y" [] c = "Z" -> "z" [] c = "É" -> "é" ]

LowerChar(c) == IF c \in DOMAIN UpperToLower THEN UpperToLower[c] ELSE c

RECURSIVE LowerFrom(_, _)
LowerFrom(text, k) ==
    IF k > Len(text) THEN ""
    ELSE LowerChar(SubSeq(text, k, k)) \o LowerFrom(text, k + 1)

toLowerCase(text) == LowerFrom(text, 1)

\* String.prototype.includes
includes(text, keyword) ==
    \E k \in 1..(Len(text) - Len(keyword) + 1) :
        SubSeq(text, k, k + Len(keyword) - 1) = keyword

\* the substrings of text that are 1 to maxLen characters long
Substrings(text, maxLen) ==
    {SubSeq(text, p[1], p[1] + p[2] - 1) :
        p \in {q \in (1..Len(text)) \X (1..maxLen) : q[1] + q[2] - 1 <= Len(text)}}

\* the keywords k for which text.includes(k)
Included(text, keywords) ==
    LET lengths == {Len(k) : k \in keywords}
        maxLen == CHOOSE n \in lengths : \A m \in lengths : m <= n
    IN  keywords \cap Substrings(text, maxLen)

\* Array.prototype.join(' ') over a sequence of strings
RECURSIVE join(_)
join(strs) ==
    IF Len(strs) = 0 THEN ""
    ELSE IF Len(strs) = 1 THEN strs[1]
    ELSE strs[1] \o " " \o join(Tail(strs))

-----------------------------------------------------------------------------
(* Content filter *)

\* a filter that excludes on the first matching keyword
isSportOrEntertainmentAny(text) ==
    LET lower == toLowerCase(text)
        matchCount == Cardinality(Included(lower, EXCLUDED_KEYWORDS))
    IN  matchCount >= 1

\* isSportOrEntertainment, scanning the text
isSportOrEntertainmentScan(text) ==
    LET lower == toLowerCase(text)
        matchCount == Cardinality(Included(lower, EXCLUDED_KEYWORDS))
    IN  matchCount >= 2

-----------------------------------------------------------------------------
(* Entity extractor *)

\* extractEntities, scanning the text
AllAliases == UNION {GEO_ENTITIES[entity] : entity \in DOMAIN GEO_ENTITIES}

extractEntitiesScan(text) ==
    LET lower == toLowerCase(text)
        found == Included(lower, AllAliases)
    IN  {entity \in DOMAIN GEO_ENTITIES : GEO_ENTITIES[entity] \cap found # {}}

-----------------------------------------------------------------------------
(* Tokenizer *)

\* normalize('NFD') followed by the removal of U+0300..U+036F
BaseLetter ==
    [ c \in {"é", "è", "ê", "ë", "à", "â", "ï", "î", "ô", "ù", "û", "ç"} |->
        CASE c \in {"é", "è", "ê", "ë"} -> "e"
          [] c \in {"à", "â"} -> "a"
          [] c \in {"ï", "î"} -> "i"
          [] c = "ô" -> "o"
          [] c \in {"ù", "û"} -> "u"
          [] c = "ç" -> "c" ]

AlphaNum ==
    { "a", "b", "c", "d", "e", "f", "g", "h", "i", "j", "k", "l", "m", "n", "o",
      "p", "q", "r", "s", "t", "u", "v", "w", "x", "y", "z",
      "0", "1", "2", "3", "4", "5", "6", "7", "8", "9" }

\* one character through toLowerCase, NFD + strip, and /[^a-z0-9\s]/g -> ' '
CleanChar(c) ==
    LET l == LowerChar(c)
        b == IF l \in DOMAIN BaseLetter THEN BaseLetter[l] ELSE l
    IN  IF b \in AlphaNum \/ b = " " THEN b ELSE " "

RECURSIVE CleanFrom(_, _)
CleanFrom(text, k) ==
    IF k > Len(text) THEN ""
    ELSE CleanChar(SubSeq(text, k, k)) \o CleanFrom(text, k + 1)

\* String.prototype.split(/\s+/): a leading or trailing run of spaces yields ""
RECURSIVE SplitFrom(_, _, _)
SplitFrom(text, k, cur) ==
    IF k > Len(text) THEN <<cur>>
    ELSE IF SubSeq(text, k, k) = " "
         THEN IF k > 1 /\ SubSeq(text, k - 1, k - 1) = " "
              THEN SplitFrom(text, k + 1, cur)
              ELSE <<cur>> \o SplitFrom(text, k + 1, "")
         ELSE SplitFrom(text, k + 1, cur \o SubSeq(text, k, k))

\* a tokenizer without the length and stop-word filter of line 174
tokenizeUnfiltered(text) == SplitFrom(CleanFrom(text, 1), 1, "")

\* tokenize, scanning the text
tokenizeScan(text) ==
    SelectSeq(SplitFrom(CleanFrom(text, 1), 1, ""),
              LAMBDA word : Len(word) > 2 /\ word \notin STOP_WORDS)

-----------------------------------------------------------------------------
(* Input articles *)

\* Date.getTime() of a date string: a number of hours, or NaN
Time(h) == [nan |-> FALSE, v |-> h]
NaN == [nan |-> TRUE, v |-> 0]

\* a RawArticle; publishedAt is an ISO date (its hour) or a text that is no date
Article(id, title, description, url, source, category, publishedAt) ==
    [ id |-> id, title |-> title, description |-> description, url |-> url,
      source |-> source, category |-> category, publishedAt |-> publishedAt ]

Iso(h) == [iso |-> TRUE, hour |-> h]
NotADate == [iso |-> FALSE, hour |-> 0]

\* The articles a corpus is drawn from, in feed order.
Catalogue ==
    << Article("a01", "Summit visits", "", "https://r.example/summit", "reuters", "politique", Iso(118)),
       Article("a01", "Summit visits", "", "https://r.example/summit", "reuters", "politique", Iso(118)),
       Article("a03", "Football match tonight", "", "https://b.example/foot", "bbc", "geopolitique", Iso(119)),
       Article("a04", "Kyiv shelled", "", "https://b.example/kyiv", "bbc", "geopolitique", Iso(130)),
       Article("a05", "Zelensky visits summit", "", "https://l.example/zelensky", "lemonde", "geopolitique", Iso(100)),
       Article("a06", "Zelensky Putin call", "", "https://r.example/call", "reuters", "geopolitique", NotADate),
       Article("a07", "Kremlin decree", "", "https://r.example/decree", "reuters", "geopolitique", Iso(100)),
       Article("a08", "Tehran protests", "", "https://b.example/tehran", "bbc", "geopolitique", Iso(114)),
       Article("a09", "Taipei drill", "", "https://l.example/taipei", "lemonde", "geopolitique", Iso(100)),
       Article("a10", "Khartoum truce", "", "https://b.example/khartoum", "bbc", "geopolitique", Iso(108)),
       Article("a11", "China Ukraine Russia trade", "", "https://r.example/trade", "reuters", "economie", Iso(118)),
       Article("a12", "Beijing tariffs", "", "https://l.example/tariffs", "lemonde", "economie", Iso(100)),
       Article("a13", "Élysée reshuffle", "", "https://l.example/elysee", "lemonde", "politique", Iso(110)) >>

\* the values Date.now() takes, in hours: the articles are 2, 6, 10, 12 and 20
\* hours old, dated 10 hours ahead, or undated
NowValues == {120}

\* `${a.title} ${a.description}`
ArticleText(a) == a.title \o " " \o a.description

\* the most articles of a feed of the text catalogue
MaxTextArticles == 3

\* the most articles of a feed of the selection catalogue
MaxSelectArticles == 6

\* a third feed, chosen for the selector: a recent article and a later one
\* under the same url, three recent articles of one source that form one
\* cluster by their entities, which is the same topic as the later article
\* but not as the first, two old articles of two sources that form one
\* cluster in the category of the single-source one, and an article whose
\* title is longer than 80 characters
SelectCatalogue ==
    << Article("s01", "Tehran protests", "", "https://s.example/live",
               "bbc", "geopolitique", Iso(118)),
       Article("s02", "Kremlin decree", "", "https://s.example/s02",
               "reuters", "economie", Iso(116)),
       Article("s03", "Kremlin decree Beijing", "", "https://s.example/s03",
               "reuters", "economie", Iso(117)),
       Article("s04", "Moscow Beijing pipeline", "", "https://s.example/s04",
               "reuters", "economie", Iso(118)),
       Article("s05", "China Ukraine Russia trade", "", "https://s.example/live",
               "lemonde", "geopolitique", Iso(118)),
       Article("s06", "Khartoum truce", "", "https://s.example/s06",
               "bbc", "economie", Iso(100)),
       Article("s07", "Sudan ceasefire talks", "", "https://s.example/s07",
               "lemonde", "politique", Iso(100)),
       Article("s08", "Parliament adopts the amended pension reform after a marathon overnight debate and three failed motions",
               "", "https://s.example/s08", "lemonde", "politique", Iso(100)) >>

\* a second feed, chosen for its texts: keyword counts of 0, 1 and 2, a
\* keyword repeated, a keyword the list also holds a part of, a keyword pair
\* split over title and description, a text that leaves no token, accents
\* and punctuation, three texts whose pairwise similarity sits on the
\* threshold, a chain of three texts linked only through the middle one, a
\* text sharing its repeated word with another, and a text with the tokens of
\* another under another url
TextCatalogue ==
    << Article("b01", "Football match tonight", "", "https://t.example/b01",
               "bbc", "geopolitique", Iso(119)),
       Article("b02", "FOOTBALL fans gather", "", "https://t.example/b02",
               "bbc", "politique", Iso(118)),
       Article("b03", "Goal after goal", "", "https://t.example/b03",
               "reuters", "economie", Iso(110)),
       Article("b04", "Olympics security budget", "", "https://t.example/b04",
               "lemonde", "politique", Iso(118)),
       Article("b05", "Rugby", "Cup", "https://t.example/b05",
               "bbc", "politique", Iso(100)),
       Article("b06", "To be or so", "", "https://t.example/b06",
               "reuters", "politique", Iso(108)),
       Article("b07", "Thé, déjà-vu à l'Élysée!", "", "https://t.example/b07",
               "lemonde", "politique", Iso(110)),
       Article("b08", "alpha bravo charlie", "", "https://t.example/b08",
               "reuters", "economie", Iso(100)),
       Article("b09", "alpha delta echo", "", "https://t.example/b09",
               "bbc", "economie", Iso(114)),
       Article("b10", "bravo charlie delta echo", "", "https://t.example/b10",
               "lemonde", "economie", Iso(100)),
       Article("b11", "Kyiv shelled", "", "https://t.example/b11",
               "bbc", "geopolitique", Iso(118)),
       Article("b12", "Zelensky Putin call", "", "https://t.example/b12",
               "reuters", "geopolitique", NotADate),
       Article("b13", "Kremlin decree", "", "https://t.example/b13",
               "lemonde", "geopolitique", Iso(100)),
       Article("b14", "Goal reached", "", "https://t.example/b14",
               "bbc", "economie", Iso(116)),
       Article("b15", "Goal, after goal!", "", "https://t.example/b15",
               "lemonde", "economie", Iso(112)) >>

-----------------------------------------------------------------------------
(* Memo of the three text scans over the texts the code scans most: those  *)
(* of single articles and of two or three articles joined in feed order.   *)
(* The functions are pure, so looking a text up gives what scanning gives. *)

MemoTexts ==
    LET n == Len(Catalogue)
        text(k) == ArticleText(Catalogue[k])
    IN  {text(k) : k \in 1..n}
        \cup {ArticleText(TextCatalogue[k]) : k \in 1..Len(TextCatalogue)}
        \cup {ArticleText(SelectCatalogue[k]) : k \in 1..Len(SelectCatalogue)}
        \cup {join(<<text(p[1]), text(p[2])>>) :
                p \in {q \in (1..n) \X (1..n) : q[1] < q[2]}}
        \cup {join(<<text(p[1]), text(p[2]), text(p[3])>>) :
                p \in {q \in (1..n) \X (1..n) \X (1..n) : q[1] < q[2] /\ q[2] < q[3]}}

SportMemo == [text \in MemoTexts |-> isSportOrEntertainmentScan(text)]
EntityMemo == [text \in MemoTexts |-> extractEntitiesScan(text)]
TokenMemo == [text \in MemoTexts |-> tokenizeScan(text)]

isSportOrEntertainment(text) ==
    IF text \in MemoTexts THEN SportMemo[text] ELSE isSportOrEntertainmentScan(text)

extractEntities(text) ==
    IF text \in MemoTexts THEN EntityMemo[text] ELSE extractEntitiesScan(text)

tokenize(text) ==
    IF text \in MemoTexts THEN TokenMemo[text] ELSE tokenizeScan(text)

-----------------------------------------------------------------------------
(* Arithmetic *)

\* the sum of f[x] >= 0 over the x in S: the bag holding f[x] + 1 copies of
\* each x has that many elements and one more for each x
SumOver(S, f) == BagCardinality([x \in S |-> f[x] + 1]) - Cardinality(S)

Max(a, b) == IF a >= b THEN a ELSE b
Min(a, b) == IF a <= b THEN a ELSE b

\* largest r in lo..hi with r * r <= n
RECURSIVE IsqrtBetween(_, _, _)
IsqrtBetween(n, lo, hi) ==
    IF lo >= hi THEN lo
    ELSE LET mid == (lo + hi + 1) \div 2
         IN  IF mid * mid <= n THEN IsqrtBetween(n, mid, hi)
             ELSE IsqrtBetween(n, lo, mid - 1)

\* a / b rounded down, for a >= 0 and b > 0
Quotient(a, b) == IF a = 0 THEN 0 ELSE a \div b

\* Math.sqrt, rounded down
Sqrt(n) == IsqrtBetween(n, 0, 46340)

\* 10000 * ln(n) for n = 1..14
LnTable == << 0, 6931, 10986, 13863, 16094, 17918, 19459, 20794, 21972, 23026,
              23979, 24849, 25649, 26391 >>

\* a smoothed inverse document frequency, Math.log((numDocs + 1) / df)
LogSmoothed(numDocs, df) == ((LnTable[numDocs + 1] - LnTable[df]) * WeightScale) \div 10000

\* Math.log(numDocs / df) in units of 1/WeightScale; exactly 0 when numDocs = df
Log(numDocs, df) == ((LnTable[numDocs] - LnTable[df]) * WeightScale) \div 10000

-----------------------------------------------------------------------------
(* Containers: an array or a Map holds the values computed when it was built *)

\* the array with the elements f[1] .. f[Len(f)]
Array(f) == SubSeq(f, 1, Len(f))

\* the Map with the entries of f
Map(f) == f @@ f

-----------------------------------------------------------------------------
(* Vectorizer *)

Terms(doc) == {doc[k] : k \in 1..Len(doc)}

\* a TF-IDF vector is a function from the terms of its document to weights
buildTfIdf(docs) ==
    LET numDocs == Len(docs)
        termSets == Array([d \in 1..numDocs |-> Terms(docs[d])])
        allTerms == UNION {termSets[d] : d \in 1..numDocs}
        docFreq == Map([term \in allTerms |->
                        Cardinality({d \in 1..numDocs : term \in termSets[d]})])
        termFreq(doc, term) == Cardinality({k \in 1..Len(doc) : doc[k] = term})
    IN  Array([d \in 1..numDocs |->
            Map([term \in termSets[d] |->
                termFreq(docs[d], term) * Log(numDocs, docFreq[term])])])

-----------------------------------------------------------------------------
(* Similarity scorer *)

\* a cosine that takes a vector without direction to match every vector
cosineSimilarityNoGuard(vec1, vec2) ==
    LET dotProduct == SumOver(DOMAIN vec1 \cap DOMAIN vec2,
                              [term \in DOMAIN vec1 \cap DOMAIN vec2 |-> vec1[term] * vec2[term]])
        norm1 == SumOver(DOMAIN vec1, [term \in DOMAIN vec1 |-> vec1[term] * vec1[term]])
        norm2 == SumOver(DOMAIN vec2, [term \in DOMAIN vec2 |-> vec2[term] * vec2[term]])
    IN  IF norm1 = 0 \/ norm2 = 0 THEN SimScale
        ELSE Quotient(Quotient(dotProduct * SimScale, Sqrt(norm1 * 100)) * 100,
                      Sqrt(norm2 * 100))

\* cosine similarity in units of 1/SimScale
cosineSimilarity(vec1, vec2) ==
    LET dotProduct == SumOver(DOMAIN vec1 \cap DOMAIN vec2,
                              [term \in DOMAIN vec1 \cap DOMAIN vec2 |-> vec1[term] * vec2[term]])
        norm1 == SumOver(DOMAIN vec1, [term \in DOMAIN vec1 |-> vec1[term] * vec1[term]])
        norm2 == SumOver(DOMAIN vec2, [term \in DOMAIN vec2 |-> vec2[term] * vec2[term]])
    IN  IF norm1 = 0 \/ norm2 = 0 THEN 0
        ELSE Quotient(Quotient(dotProduct * SimScale, Sqrt(norm1 * 100)) * 100,
                      Sqrt(norm2 * 100))

\* Jaccard index in units of 1/SimScale
entitySimilarity(entities1, entities2) ==
    IF Cardinality(entities1) = 0 \/ Cardinality(entities2) = 0 THEN 0
    ELSE (Cardinality(entities1 \cap entities2) * SimScale)
            \div Cardinality(entities1 \cup entities2)

\* the weighted score of line 261 alone, without the entity override
weightedSimilarity(tfidf1, tfidf2, entities1, entities2) ==
    LET textSim == cosineSimilarity(tfidf1, tfidf2)
        entSim == entitySimilarity(entities1, entities2)
    IN  (textSim * 6 + entSim * 4) \div 10

\* a combined score whose override starts above an entity similarity of 0.5
combinedSimilarityAboveHalf(tfidf1, tfidf2, entities1, entities2) ==
    LET textSim == cosineSimilarity(tfidf1, tfidf2)
        entSim == entitySimilarity(entities1, entities2)
    IN  IF 2 * entSim > SimScale
        THEN Max(textSim, (entSim * 8) \div 10)
        ELSE (textSim * 6 + entSim * 4) \div 10

combinedSimilarity(tfidf1, tfidf2, entities1, entities2) ==
    LET textSim == cosineSimilarity(tfidf1, tfidf2)
        entSim == entitySimilarity(entities1, entities2)
    IN  IF 2 * entSim >= SimScale
        THEN Max(textSim, (entSim * 8) \div 10)
        ELSE (textSim * 6 + entSim * 4) \div 10

-----------------------------------------------------------------------------
(* Cluster builder *)

SIMILARITY_THRESHOLD == 200

\* new Date(a.publishedAt).getTime()
getTime(publishedAt) == IF publishedAt.iso THEN Time(publishedAt.hour) ELSE NaN

\* Math.max over times: NaN as soon as one of them is NaN
RECURSIVE MaxTime(_)
MaxTime(times) ==
    IF Len(times) = 1 THEN times[1]
    ELSE LET rest == MaxTime(Tail(times))
         IN  IF times[1].nan \/ rest.nan THEN NaN
             ELSE Time(Max(times[1].v, rest.v))

\* x < bound for a number that may be NaN: every comparison with NaN is false
LessThan(x, bound) == ~x.nan /\ x.v < bound

\* the article objects behind a list of references
Deref(refs) == Array([k \in 1..Len(refs) |-> articles[refs[k]]])

\* new Set(list.map(a => a.source))
Sources(members) == {members[k].source : k \in 1..Len(members)}

\* a rounding that drops the half
RoundHalvesDown(half2) == half2 \div 2

\* Math.round of half2 / 2: halves round up
RoundHalves(half2) == (half2 + 1) \div 2

\* the score as it is, with no lower or upper limit
Unclamped(x) == x

\* Math.min(10, Math.max(1, x))
Clamp(x) == Min(10, Max(1, x))

\* an importance whose two recency bonuses add up to 3
ImportanceStacked(members, t) ==
    LET numArticles == Len(members)
        numSources == Cardinality(Sources(members))
        recency == MaxTime([k \in 1..Len(members) |-> getTime(members[k].publishedAt)])
        hoursAgo == IF recency.nan THEN NaN ELSE Time(t - recency.v)
        base2 == numArticles * 3 + numSources * 6
        bonus2 == (IF LessThan(hoursAgo, 6) THEN 4 ELSE 0)
                  + (IF LessThan(hoursAgo, 12) THEN 2 ELSE 0)
    IN  Clamp(RoundHalves(base2 + bonus2))

\* lines 310-320, on twice the score so that 1.5 is the integer 3
Importance(members, t) ==
    LET numArticles == Len(members)
        numSources == Cardinality(Sources(members))
        recency == MaxTime([k \in 1..Len(members) |-> getTime(members[k].publishedAt)])
        hoursAgo == IF recency.nan THEN NaN ELSE Time(t - recency.v)
        base2 == numArticles * 3 + numSources * 6
        bonus2 == IF LessThan(hoursAgo, 6) THEN 4
                  ELSE IF LessThan(hoursAgo, 12) THEN 2 ELSE 0
    IN  Clamp(RoundHalves(base2 + bonus2))

\* an absorption test that leaves out a similarity equal to the threshold
AbsorbsAbove(similarity) == similarity > SIMILARITY_THRESHOLD

\* the absorption test of line 301
Absorbs(similarity) == similarity >= SIMILARITY_THRESHOLD

\* the inner loop without the test of line 297: articles already assigned are
\* compared again
RECURSIVE ScanFromNoSkip(_, _, _, _, _)
ScanFromNoSkip(j, seed, done, vecs, ents) ==
    IF j > Len(vecs) THEN <<>>
    ELSE IF Absorbs(combinedSimilarity(vecs[seed], vecs[j], ents[seed], ents[j]))
         THEN <<j>> \o ScanFromNoSkip(j + 1, seed, done, vecs, ents)
         ELSE ScanFromNoSkip(j + 1, seed, done, vecs, ents)

\* inner loop of lines 296-305 from index j on: the indices it absorbs, in order
RECURSIVE ScanFrom(_, _, _, _, _)
ScanFrom(j, seed, done, vecs, ents) ==
    IF j > Len(vecs) THEN <<>>
    ELSE IF j \in done THEN ScanFrom(j + 1, seed, done, vecs, ents)
    ELSE IF Absorbs(combinedSimilarity(vecs[seed], vecs[j], ents[seed], ents[j]))
         THEN <<j>> \o ScanFrom(j + 1, seed, done, vecs, ents)
         ELSE ScanFrom(j + 1, seed, done, vecs, ents)

\* a topic that keeps the whole title
sliceAll(text, n) == text

\* String.prototype.slice(0, n)
slice(text, n) == SubSeq(text, 1, Min(n, Len(text)))

\* lines 307-328: the cluster of the articles refs, the first one being the seed
NewCluster(k, refs, t) ==
    [ id |-> "cluster-" \o ToString(k),
      topic |-> slice(articles[refs[1]].title, 80),
      category |-> articles[refs[1]].category,
      importance |-> Importance(Deref(refs), t),
      articles |-> refs ]

-----------------------------------------------------------------------------
(* Deduplicator *)

\* cluster.articles.map(a => `${a.title} ${a.description}`).join(' ')
ClusterText(c) == join([k \in 1..Len(c.articles) |-> ArticleText(articles[c.articles[k]])])

\* new Set(cluster.articles.map(a => a.url))
Urls(c) == {articles[c.articles[k]].url : k \in 1..Len(c.articles)}

\* areSameTopic without the shared-url criterion of lines 348-352
areSameTopicNoUrl(cluster1, cluster2) ==
    LET text1 == ClusterText(cluster1)
        text2 == ClusterText(cluster2)
        entSim == entitySimilarity(extractEntities(text1), extractEntities(text2))
        tfidf == buildTfIdf(<<tokenize(text1), tokenize(text2)>>)
        textSim == cosineSimilarity(tfidf[1], tfidf[2])
    IN  IF 2 * entSim >= SimScale THEN TRUE
        ELSE 4 * textSim >= SimScale

areSameTopic(cluster1, cluster2) ==
    LET text1 == ClusterText(cluster1)
        text2 == ClusterText(cluster2)
        entSim == entitySimilarity(extractEntities(text1), extractEntities(text2))
        sharedUrls == Cardinality(Urls(cluster1) \cap Urls(cluster2))
        tfidf == buildTfIdf(<<tokenize(text1), tokenize(text2)>>)
        textSim == cosineSimilarity(tfidf[1], tfidf[2])
    IN  IF 2 * entSim >= SimScale THEN TRUE
        ELSE IF sharedUrls > 0 THEN TRUE
        ELSE 4 * textSim >= SimScale

-----------------------------------------------------------------------------
(* Selector *)

\* insertion for the comparator (a, b) => a.importance - b.importance
RECURSIVE InsertAscending(_, _)
InsertAscending(sorted, c) ==
    IF Len(sorted) = 0 THEN <<c>>
    ELSE IF clusters[sorted[1]].importance <= clusters[c].importance
         THEN <<sorted[1]>> \o InsertAscending(Tail(sorted), c)
         ELSE <<c>> \o sorted

\* Array.prototype.sort((a, b) => b.importance - a.importance): stable
RECURSIVE InsertByImportance(_, _)
InsertByImportance(sorted, c) ==
    IF Len(sorted) = 0 THEN <<c>>
    ELSE IF clusters[sorted[1]].importance >= clusters[c].importance
         THEN <<sorted[1]>> \o InsertByImportance(Tail(sorted), c)
         ELSE <<c>> \o sorted

RECURSIVE SortByImportance(_)
SortByImportance(cs) ==
    IF Len(cs) = 0 THEN <<>>
    ELSE InsertByImportance(SortByImportance(SubSeq(cs, 1, Len(cs) - 1)), cs[Len(cs)])

\* new Set(c.articles.map(a => a.source)).size
NumSources(c) == Cardinality(Sources(Deref(c.articles)))

\* the clusters argument of selectBestClusters, as references
ClusterRefs == Array([k \in 1..Len(clusters) |-> k])

\* isDuplicate comparing the candidate with the last accepted cluster only
isDuplicateOfLast(sel, candidate) ==
    Len(sel) > 0 /\ areSameTopic(clusters[sel[Len(sel)]], clusters[candidate])

\* a duplicate test against every cluster visited so far, accepted or not
isDuplicateOfVisited(sel, candidate) ==
    \/ \E k \in 1..Len(sel) : areSameTopic(clusters[sel[k]], clusters[candidate])
    \/ \E r \in rejected : areSameTopic(clusters[r], clusters[candidate])

\* isDuplicate of lines 380-382, against the list accepted so far
isDuplicate(sel, candidate) ==
    \E k \in 1..Len(sel) : areSameTopic(clusters[sel[k]], clusters[candidate])

\* [...multiSource, ...singleSource]
AllSorted == multiSource \o singleSource

\* byCategory[category]
Available(category) == SelectSeq(AllSorted, LAMBDA c : clusters[c].category = category)

\* Object.values(TARGET_CLUSTERS).reduce((a, b) => a + b, 0)
TotalTarget ==
    TARGET_CLUSTERS.geopolitique + TARGET_CLUSTERS.economie + TARGET_CLUSTERS.politique

\* the loop test with > in place of >=
QuotaExceeded(count, target) == count > target

\* the loop test of line 395
QuotaFilled(count, target) == count >= target

\* selected.includes(cluster): the same object
Includes(sel, c) == \E k \in 1..Len(sel) : sel[k] = c

-----------------------------------------------------------------------------
(* cluster(): state machine *)

NoFile == [written |-> FALSE, clusterCount |-> 0, clusters |-> <<>>]

\* no run of cluster() has ended before this one
NoRun == [ran |-> FALSE, now |-> 0, clusters |-> <<>>, selected |-> <<>>]

\* the articles of the catalogue at the positions in S, in catalogue order
RECURSIVE PickFrom(_, _, _)
PickFrom(catalogue, S, k) ==
    IF k > Len(catalogue) THEN <<>>
    ELSE IF k \in S THEN <<catalogue[k]>> \o PickFrom(catalogue, S, k + 1)
    ELSE PickFrom(catalogue, S, k + 1)

Pick(S, k) == PickFrom(Catalogue, S, k)

\* the files data/raw-articles.json can be: absent, not JSON, JSON without an
\* articles array, or a feed of at most maxLen articles of the catalogue
RawFiles(catalogue, maxLen) ==
    { [kind |-> "missing", articles |-> <<>>],
      [kind |-> "unparseable", articles |-> <<>>],
      [kind |-> "noArticles", articles |-> <<>>] }
    \cup { [kind |-> "ok", articles |-> PickFrom(catalogue, S, 1)] :
             S \in {T \in SUBSET (1..Len(catalogue)) : Cardinality(T) <= maxLen} }

InitWith(files) ==
    /\ rawFile \in files
    /\ now \in NowValues
    /\ pc = "start"
    /\ articles = <<>>
    /\ filtered = <<>>
    /\ documents = <<>>
    /\ entities = <<>>
    /\ vectors = <<>>
    /\ i = 1
    /\ assigned = {}
    /\ clusters = <<>>
    /\ multiSource = <<>>
    /\ singleSource = <<>>
    /\ selected = <<>>
    /\ catIdx = 1
    /\ pos = 1
    /\ added = 0
    /\ rejected = {}
    /\ output = NoFile
    /\ previous = NoRun

Init == InitWith(RawFiles(Catalogue, MaxArticles))

\* the same program started on a feed of the text catalogue
TextInit == InitWith(RawFiles(TextCatalogue, MaxTextArticles))

\* lines 428-431: raw-articles.json is missing, process.exit(1)
ExitMissing ==
    /\ pc = "start"
    /\ rawFile.kind = "missing"
    /\ pc' = "exit1"
    /\ UNCHANGED <<rawFile, articles, now, filtered, documents, entities, vectors, i,
                   assigned, clusters, multiSource, singleSource, selected, catIdx,
                   pos, added, rejected, output, previous>>

\* an engine that takes an unreadable corpus for an empty one
LoadNothing ==
    /\ pc = "start"
    /\ rawFile.kind \in {"unparseable", "noArticles"}
    /\ articles' = <<>>
    /\ pc' = "prepare"
    /\ UNCHANGED <<rawFile, now, filtered, documents, entities, vectors, i, assigned,
                   clusters, multiSource, singleSource, selected, catIdx, pos, added,
                   rejected, output, previous>>

\* lines 433-438: JSON.parse throws, or rawData.articles is undefined and
\* clusterArticles throws on articles.filter
Throw ==
    /\ pc = "start"
    /\ rawFile.kind \in {"unparseable", "noArticles"}
    /\ pc' = "thrown"
    /\ UNCHANGED <<rawFile, articles, now, filtered, documents, entities, vectors, i,
                   assigned, clusters, multiSource, singleSource, selected, catIdx,
                   pos, added, rejected, output, previous>>

\* an engine that leaves the feed alone once clustered-articles.json exists
LoadOnce ==
    /\ pc = "start"
    /\ rawFile.kind = "ok"
    /\ articles' = IF output.written THEN <<>> ELSE rawFile.articles
    /\ pc' = "prepare"
    /\ UNCHANGED <<rawFile, now, filtered, documents, entities, vectors, i, assigned,
                   clusters, multiSource, singleSource, selected, catIdx, pos, added,
                   rejected, output, previous>>

\* line 433: the corpus is read; JSON.parse makes one object per article
Load ==
    /\ pc = "start"
    /\ rawFile.kind = "ok"
    /\ articles' = rawFile.articles
    /\ pc' = "prepare"
    /\ UNCHANGED <<rawFile, now, filtered, documents, entities, vectors, i, assigned,
                   clusters, multiSource, singleSource, selected, catIdx, pos, added,
                   rejected, output, previous>>

\* articles.filter(a => !isSportOrEntertainment(...)), as references
RECURSIVE Kept(_)
Kept(k) ==
    IF k > Len(articles) THEN <<>>
    ELSE IF isSportOrEntertainment(ArticleText(articles[k])) THEN Kept(k + 1)
    ELSE <<k>> \o Kept(k + 1)

\* lines 269-288: filter, tokenize, extract entities, vectorize
Prepare ==
    /\ pc = "prepare"
    /\ filtered' = Kept(1)
    /\ documents' = Array([k \in 1..Len(filtered') |->
                              tokenize(ArticleText(articles[filtered'[k]]))])
    /\ entities' = Array([k \in 1..Len(filtered') |->
                             extractEntities(ArticleText(articles[filtered'[k]]))])
    /\ vectors' = buildTfIdf(documents')
    /\ clusters' = <<>>
    /\ assigned' = {}
    /\ i' = 1
    /\ pc' = "seed"
    /\ UNCHANGED <<rawFile, articles, now, multiSource, singleSource, selected, catIdx,
                   pos, added, rejected, output, previous>>

\* lines 290-329: one iteration of the outer loop
SeedStep ==
    /\ pc = "seed"
    /\ i <= Len(filtered)
    /\ IF i \in assigned
       THEN UNCHANGED <<assigned, clusters>>
       ELSE LET indices == <<i>> \o ScanFrom(i + 1, i, assigned \cup {i}, vectors, entities)
                refs == Array([k \in 1..Len(indices) |-> filtered[indices[k]]])
            IN  /\ assigned' = assigned \cup {indices[k] : k \in 1..Len(indices)}
                /\ clusters' = Append(clusters, NewCluster(Len(clusters) + 1, refs, now))
    /\ i' = i + 1
    /\ UNCHANGED <<rawFile, pc, articles, now, filtered, documents, entities, vectors,
                   multiSource, singleSource, selected, catIdx, pos, added, rejected,
                   output, previous>>

IsMultiSource(c) == NumSources(c) > 1
IsSingleSource(c) == NumSources(c) = 1

\* a selection that gives up when there is no candidate
SelectStartNonEmpty ==
    /\ pc = "seed"
    /\ i > Len(filtered)
    /\ Len(clusters) > 0
    /\ multiSource' = SortByImportance(SelectSeq(ClusterRefs, LAMBDA k : IsMultiSource(clusters[k])))
    /\ singleSource' = SortByImportance(SelectSeq(ClusterRefs, LAMBDA k : IsSingleSource(clusters[k])))
    /\ selected' = <<>>
    /\ catIdx' = 1
    /\ pos' = 1
    /\ added' = 0
    /\ pc' = "category"
    /\ UNCHANGED <<rawFile, articles, now, filtered, documents, entities, vectors, i,
                   assigned, clusters, rejected, output, previous>>

\* a selection that ranks all clusters by importance alone
SelectStartByImportance ==
    /\ pc = "seed"
    /\ i > Len(filtered)
    /\ multiSource' = SortByImportance(ClusterRefs)
    /\ singleSource' = <<>>
    /\ selected' = <<>>
    /\ catIdx' = 1
    /\ pos' = 1
    /\ added' = 0
    /\ pc' = "category"
    /\ UNCHANGED <<rawFile, articles, now, filtered, documents, entities, vectors, i,
                   assigned, clusters, rejected, output, previous>>

\* lines 438 and 368-389: clusterArticles has returned; selectBestClusters starts
SelectStart ==
    /\ pc = "seed"
    /\ i > Len(filtered)
    /\ multiSource' = SortByImportance(SelectSeq(ClusterRefs, LAMBDA k : IsMultiSource(clusters[k])))
    /\ singleSource' = SortByImportance(SelectSeq(ClusterRefs, LAMBDA k : IsSingleSource(clusters[k])))
    /\ selected' = <<>>
    /\ catIdx' = 1
    /\ pos' = 1
    /\ added' = 0
    /\ pc' = "category"
    /\ UNCHANGED <<rawFile, articles, now, filtered, documents, entities, vectors, i,
                   assigned, clusters, rejected, output, previous>>

\* lines 394-402: one candidate of the current category
CategoryVisit ==
    /\ pc = "category"
    /\ catIdx <= Len(Categories)
    /\ LET available == Available(Categories[catIdx])
           target == TARGET_CLUSTERS[Categories[catIdx]]
       IN  /\ pos <= Len(available)
           /\ ~QuotaFilled(added, target)
           /\ IF ~isDuplicate(selected, available[pos])
              THEN /\ selected' = Append(selected, available[pos])
                   /\ added' = added + 1
                   /\ UNCHANGED rejected
              ELSE /\ rejected' = rejected \cup {available[pos]}
                   /\ UNCHANGED <<selected, added>>
    /\ pos' = pos + 1
    /\ UNCHANGED <<rawFile, pc, articles, now, filtered, documents, entities, vectors, i,
                   assigned, clusters, multiSource, singleSource, catIdx, output, previous>>

\* lines 391-395: the category is exhausted or its quota is filled
CategoryNext ==
    /\ pc = "category"
    /\ catIdx <= Len(Categories)
    /\ \/ pos > Len(Available(Categories[catIdx]))
       \/ QuotaFilled(added, TARGET_CLUSTERS[Categories[catIdx]])
    /\ catIdx' = catIdx + 1
    /\ pos' = 1
    /\ added' = 0
    /\ UNCHANGED <<rawFile, pc, articles, now, filtered, documents, entities, vectors, i,
                   assigned, clusters, multiSource, singleSource, selected, rejected,
                   output, previous>>

\* selectBestClusters without its backfill pass
FillSkip ==
    /\ pc = "category"
    /\ catIdx > Len(Categories)
    /\ pc' = "sort"
    /\ pos' = 1
    /\ UNCHANGED <<rawFile, articles, now, filtered, documents, entities, vectors, i,
                   assigned, clusters, multiSource, singleSource, selected, catIdx,
                   added, rejected, output, previous>>

\* lines 406-408: the backfill pass runs only below the total target
FillStart ==
    /\ pc = "category"
    /\ catIdx > Len(Categories)
    /\ pc' = IF Len(selected) < TotalTarget THEN "fill" ELSE "sort"
    /\ pos' = 1
    /\ UNCHANGED <<rawFile, articles, now, filtered, documents, entities, vectors, i,
                   assigned, clusters, multiSource, singleSource, selected, catIdx,
                   added, rejected, output, previous>>

\* the backfill pass without the test of line 410
FillVisitUnbounded ==
    /\ pc = "fill"
    /\ pos <= Len(AllSorted)
    /\ IF ~Includes(selected, AllSorted[pos]) /\ ~isDuplicate(selected, AllSorted[pos])
       THEN selected' = Append(selected, AllSorted[pos])
       ELSE UNCHANGED selected
    /\ pos' = pos + 1
    /\ UNCHANGED <<rawFile, pc, articles, now, filtered, documents, entities, vectors, i,
                   assigned, clusters, multiSource, singleSource, catIdx, added,
                   rejected, output, previous>>

\* a backfill pass that takes every cluster not yet selected
FillVisitAny ==
    /\ pc = "fill"
    /\ pos <= Len(AllSorted)
    /\ ~QuotaFilled(Len(selected), TotalTarget)
    /\ IF ~Includes(selected, AllSorted[pos])
       THEN selected' = Append(selected, AllSorted[pos])
       ELSE UNCHANGED selected
    /\ pos' = pos + 1
    /\ UNCHANGED <<rawFile, pc, articles, now, filtered, documents, entities, vectors, i,
                   assigned, clusters, multiSource, singleSource, catIdx, added,
                   rejected, output, previous>>

\* lines 409-414: one candidate of the backfill pass
FillVisit ==
    /\ pc = "fill"
    /\ pos <= Len(AllSorted)
    /\ ~QuotaFilled(Len(selected), TotalTarget)
    /\ IF ~Includes(selected, AllSorted[pos]) /\ ~isDuplicate(selected, AllSorted[pos])
       THEN selected' = Append(selected, AllSorted[pos])
       ELSE UNCHANGED selected
    /\ pos' = pos + 1
    /\ UNCHANGED <<rawFile, pc, articles, now, filtered, documents, entities, vectors, i,
                   assigned, clusters, multiSource, singleSource, catIdx, added,
                   rejected, output, previous>>

\* lines 409-410: the backfill pass ends
FillEnd ==
    /\ pc = "fill"
    /\ \/ pos > Len(AllSorted)
       \/ QuotaFilled(Len(selected), TotalTarget)
    /\ pc' = "sort"
    /\ UNCHANGED <<rawFile, articles, now, filtered, documents, entities, vectors, i,
                   assigned, clusters, multiSource, singleSource, selected, catIdx,
                   pos, added, rejected, output, previous>>

\* a selector that sorts the list it was given
SortReturnInPlace ==
    /\ pc = "sort"
    /\ selected' = SortByImportance(selected)
    /\ clusters' = LET order == SortByImportance(ClusterRefs)
                   IN  Array([k \in 1..Len(order) |-> clusters[order[k]]])
    /\ pc' = "write"
    /\ UNCHANGED <<rawFile, articles, now, filtered, documents, entities, vectors, i,
                   assigned, multiSource, singleSource, catIdx, pos, added,
                   rejected, output, previous>>

\* line 417: the selection is sorted in place and returned
SortReturn ==
    /\ pc = "sort"
    /\ selected' = SortByImportance(selected)
    /\ pc' = "write"
    /\ UNCHANGED <<rawFile, articles, now, filtered, documents, entities, vectors, i,
                   assigned, clusters, multiSource, singleSource, catIdx, pos, added,
                   rejected, output, previous>>

\* lines 464-475: clustered-articles.json is written
WriteOutput ==
    /\ pc = "write"
    /\ output' = [written |-> TRUE, clusterCount |-> Len(selected), clusters |-> selected]
    /\ pc' = "done"
    /\ UNCHANGED <<rawFile, articles, now, filtered, documents, entities, vectors, i,
                   assigned, clusters, multiSource, singleSource, selected, catIdx,
                   pos, added, rejected, previous>>

Next ==
    \/ ExitMissing
    \/ Throw
    \/ Load
    \/ Prepare
    \/ SeedStep
    \/ SelectStart
    \/ CategoryVisit
    \/ CategoryNext
    \/ FillStart
    \/ FillVisit
    \/ FillEnd
    \/ SortReturn
    \/ WriteOutput

Spec == Init /\ [][Next]_vars

TextSpec == TextInit /\ [][Next]_vars

\* the same program started on a feed of the selection catalogue
SelectInit == InitWith(RawFiles(SelectCatalogue, MaxSelectArticles))

SelectSpec == SelectInit /\ [][Next]_vars

-----------------------------------------------------------------------------
(* Two runs over one raw-articles.json *)

\* the most articles of a feed that is clustered twice
MaxRerunArticles == 3

\* the values of Date.now() in the second run: the time of the first run, or
\* 4 hours later, when the articles are 6, 10, 14, 16 and 24 hours old
RerunTimes == {120, 124}

\* line 502, in a second process: cluster() runs again over the same file,
\* with fresh memory; clustered-articles.json is still on the disk
Rerun ==
    /\ pc = "done"
    /\ ~previous.ran
    /\ previous' = [ran |-> TRUE, now |-> now, clusters |-> clusters,
                    selected |-> output.clusters]
    /\ now' \in RerunTimes
    /\ pc' = "start"
    /\ articles' = <<>>
    /\ filtered' = <<>>
    /\ documents' = <<>>
    /\ entities' = <<>>
    /\ vectors' = <<>>
    /\ i' = 1
    /\ assigned' = {}
    /\ clusters' = <<>>
    /\ multiSource' = <<>>
    /\ singleSource' = <<>>
    /\ selected' = <<>>
    /\ catIdx' = 1
    /\ pos' = 1
    /\ added' = 0
    /\ rejected' = {}
    /\ UNCHANGED <<rawFile, output>>

RerunInit == InitWith(RawFiles(Catalogue, MaxRerunArticles))

NextTwoRuns == Next \/ Rerun

TwoRunSpec == RerunInit /\ [][NextTwoRuns]_vars

-----------------------------------------------------------------------------
(* Properties of clusterArticles *)

\* clusterArticles has returned its list to cluster()
ClusteringDone == pc \in {"category", "fill", "sort", "write", "done"}

\* the places <<cluster, position>> at which the article object r is a member
Places(r) ==
    {p \in UNION {{<<k, m>> : m \in 1..Len(clusters[k].articles)} : k \in 1..Len(clusters)} :
        clusters[p[1]].articles[p[2]] = r}

\* the articles the sport and entertainment filter excludes
Excluded == {r \in 1..Len(articles) : isSportOrEntertainment(ArticleText(articles[r]))}

\* C1: once clusterArticles has returned, every article that passed the sport
\* and entertainment filter is a member of exactly one cluster, at exactly one
\* position, and no excluded article is a member of any cluster.
C1_Partition ==
    ClusteringDone =>
        \A r \in 1..Len(articles) :
            Cardinality(Places(r)) = (IF r \in Excluded THEN 0 ELSE 1)

\* clustering has ended with an article excluded, a cluster of several
\* articles and a second cluster
C1_Witness ==
    /\ ClusteringDone
    /\ Excluded # {}
    /\ Len(clusters) >= 2
    /\ \E k \in 1..Len(clusters) : Len(clusters[k].articles) >= 2

\* the members of cluster k, as a set of article objects
Members(k) == {clusters[k].articles[m] : m \in 1..Len(clusters[k].articles)}

\* the article objects r1 and r2 are members of one cluster
SameCluster(r1, r2) == \E k \in 1..Len(clusters) : {r1, r2} \subseteq Members(k)

\* C7: every cluster clusterArticles produces has an integer importance from 1
\* to 10, whatever its article count, its source count and its recency, a
\* future or unparseable publishedAt included.
C7_ImportanceClamp ==
    \A k \in 1..Len(clusters) : clusters[k].importance \in 1..10

\* a cluster of three articles from several sources, one dated in the future
\* and one with an unparseable date, whose importance is the upper limit
C7_Witness ==
    \E k \in 1..Len(clusters) :
        /\ Len(clusters[k].articles) >= 3
        /\ NumSources(clusters[k]) >= 2
        /\ clusters[k].importance = 10
        /\ \E r \in Members(k) : getTime(articles[r].publishedAt).nan
        /\ \E r \in Members(k) :
              /\ ~getTime(articles[r].publishedAt).nan
              /\ getTime(articles[r].publishedAt).v > now

\* two articles with the same title, description and url
SameDocument(a, b) ==
    a.title = b.title /\ a.description = b.description /\ a.url = b.url

\* C8 as stated: two articles of the corpus with identical title, description
\* and url that both pass the filter are put in the same cluster.
C8_ExactDuplicates ==
    ClusteringDone =>
        \A r1, r2 \in (1..Len(articles)) \ Excluded :
            (r1 # r2 /\ SameDocument(articles[r1], articles[r2])) => SameCluster(r1, r2)

\* the documents at positions p < q of the filtered corpus share no token and
\* both have the entity set {ukraine}
UkrainePairs ==
    {pq \in (1..Len(filtered)) \X (1..Len(filtered)) :
        /\ pq[1] < pq[2]
        /\ entities[pq[1]] = {"ukraine"}
        /\ entities[pq[2]] = {"ukraine"}
        /\ Terms(documents[pq[1]]) \cap Terms(documents[pq[2]]) = {}}

\* combinedSimilarity of the documents at positions p and q
PairSimilarity(p, q) == combinedSimilarity(vectors[p], vectors[q], entities[p], entities[q])

\* C10 as stated: two documents that share no token and both have the entity
\* set {ukraine} have a combined similarity of at least 0.8 and are put in the
\* same cluster, whatever the corpus.
C10_AlwaysMerged ==
    ClusteringDone =>
        \A pq \in UkrainePairs :
            /\ PairSimilarity(pq[1], pq[2]) >= (8 * SimScale) \div 10
            /\ SameCluster(filtered[pq[1]], filtered[pq[2]])

\* one of the article objects r1, r2 is a member of a cluster whose seed
\* precedes both in the corpus
TakenByEarlierSeed(r1, r2) ==
    \E k \in 1..Len(clusters) :
        /\ clusters[k].articles[1] < r1
        /\ clusters[k].articles[1] < r2
        /\ Members(k) \cap {r1, r2} # {}

\* C10: two documents that share no token and both have the entity set
\* {ukraine} have a combined similarity of at least 0.8, and are put in the same
\* cluster unless an earlier seed has absorbed one of them.
C10_EntityOverride ==
    ClusteringDone =>
        \A pq \in UkrainePairs :
            /\ PairSimilarity(pq[1], pq[2]) >= (8 * SimScale) \div 10
            /\ \/ SameCluster(filtered[pq[1]], filtered[pq[2]])
               \/ TakenByEarlierSeed(filtered[pq[1]], filtered[pq[2]])

\* the first of two such documents is a seed and has absorbed the second
C10_Witness ==
    /\ ClusteringDone
    /\ \E pq \in UkrainePairs :
          \E k \in 1..Len(clusters) :
              /\ clusters[k].articles[1] = filtered[pq[1]]
              /\ filtered[pq[2]] \in Members(k)

-----------------------------------------------------------------------------
(* Properties of selectBestClusters *)

\* C2: at every point of selectBestClusters and in the list it returns, no two
\* accepted clusters are the same topic, whichever of the two is the first
\* argument of areSameTopic.
C2_NoDuplicateTopics ==
    \A a, b \in 1..Len(selected) :
        a # b => /\ selected[a] # selected[b]
                 /\ ~areSameTopic(clusters[selected[a]], clusters[selected[b]])

\* the selection has been returned with several clusters, after a candidate
\* was turned down as a duplicate
C2_Witness ==
    /\ pc = "done"
    /\ Len(output.clusters) >= 2
    /\ rejected # {}

\* no two of the clusters in the set S are the same topic
PairwiseDistinct(S) ==
    \A a, b \in S : a # b => ~areSameTopic(clusters[a], clusters[b])

\* the clusters of S in a category
InCategory(S, category) == {k \in S : clusters[k].category = category}

\* S holds at least the quota of every category
MeetsQuotas(S) ==
    \A c \in 1..Len(Categories) :
        Cardinality(InCategory(S, Categories[c])) >= TARGET_CLUSTERS[Categories[c]]

\* the candidate clusters handed to selectBestClusters
Candidates == 1..Len(clusters)

\* C3 as stated: whenever the candidates contain at least T = 6 clusters that
\* are pairwise distinct topics and cover every category with at least its
\* quota, selectBestClusters returns exactly T clusters.
C3_SomeDistinctSubset ==
    pc = "done" =>
        ((\E S \in SUBSET Candidates :
              /\ Cardinality(S) >= TotalTarget
              /\ MeetsQuotas(S)
              /\ PairwiseDistinct(S))
          => output.clusterCount = TotalTarget)

\* C3: whenever all the candidates are pairwise distinct topics and every
\* category has at least its quota of them, selectBestClusters returns
\* exactly T = 6 clusters.
C3_SelectorQuota ==
    (pc = "done" /\ MeetsQuotas(Candidates) /\ PairwiseDistinct(Candidates))
        => output.clusterCount = TotalTarget

\* a selection among more candidates than the total target, all of them distinct
\* topics and every category supplied
C3_Witness ==
    /\ pc = "done"
    /\ Len(clusters) > TotalTarget
    /\ MeetsQuotas(Candidates)
    /\ PairwiseDistinct(Candidates)
    /\ output.clusterCount = TotalTarget

\* the number of clusters the per-category pass accepts when no candidate is a
\* duplicate of another
CategoryPassCount ==
    LET taken(c) == Min(TARGET_CLUSTERS[Categories[c]],
                        Cardinality(InCategory(Candidates, Categories[c])))
    IN  taken(1) + taken(2) + taken(3)

\* geopolitique has 2 clusters, and the candidates are at least 6, all of them
\* distinct topics
TwoGeoAmongDistinct ==
    /\ Cardinality(InCategory(Candidates, "geopolitique")) = 2
    /\ Len(clusters) >= TotalTarget
    /\ PairwiseDistinct(Candidates)

\* the clusters the backfill pass is to accept: the first candidates of the
\* priority order that the per-category pass left out
BackfillOrder ==
    LET picks == SubSeq(selected, 1, CategoryPassCount)
        left == SelectSeq(AllSorted, LAMBDA c : ~Includes(picks, c))
    IN  SubSeq(left, 1, TotalTarget - CategoryPassCount)

\* C4: when geopolitique has only 2 clusters and the candidates are at least 6
\* clusters, all pairwise distinct topics, selectBestClusters returns 6
\* clusters; the slots the per-category pass left empty are filled with
\* clusters of the other categories, taken in priority order.
C4_QuotaBackfill ==
    (pc \in {"sort", "write", "done"} /\ TwoGeoAmongDistinct) =>
        /\ Len(selected) = TotalTarget
        /\ pc = "done" => output.clusterCount = TotalTarget
        /\ pc = "sort" =>
              /\ SubSeq(selected, CategoryPassCount + 1, Len(selected)) = BackfillOrder
              /\ \A k \in (CategoryPassCount + 1)..Len(selected) :
                    clusters[selected[k]].category # "geopolitique"

\* the backfill pass has ended, having filled two slots after the 2
\* geopolitique clusters and one cluster of each other category
C4_Witness ==
    /\ pc = "sort"
    /\ TwoGeoAmongDistinct
    /\ CategoryPassCount = 4
    /\ Len(BackfillOrder) = 2

\* the number of accepted clusters of a category
SelectedIn(category) ==
    Cardinality({k \in 1..Len(selected) : clusters[selected[k]].category = category})

\* C5: the selection never holds more than the total target of 6 clusters, and
\* up to the end of the per-category pass no category holds more than its
\* quota: only the backfill pass takes a category above its quota.
C5_QuotaBounds ==
    /\ Len(selected) <= TotalTarget
    /\ pc \notin {"fill", "sort", "write", "done"} =>
          \A c \in 1..Len(Categories) :
              SelectedIn(Categories[c]) <= TARGET_CLUSTERS[Categories[c]]

\* the backfill pass has filled the selection and taken a category above its
\* quota
C5_Witness ==
    /\ pc = "done"
    /\ Len(selected) = TotalTarget
    /\ \E c \in 1..Len(Categories) :
          SelectedIn(Categories[c]) > TARGET_CLUSTERS[Categories[c]]

\* C6: the list selectBestClusters returns is in non-increasing order of
\* importance, whatever the categories and the order of acceptance.
C6_SortedByImportance ==
    pc \in {"write", "done"} =>
        \A k \in 1..(Len(selected) - 1) :
            clusters[selected[k]].importance >= clusters[selected[k + 1]].importance

\* the written list places a cluster of a later category before a less
\* important geopolitique cluster
C6_Witness ==
    /\ pc = "done"
    /\ \E k, m \in 1..Len(output.clusters) :
          /\ k < m
          /\ clusters[output.clusters[k]].category # "geopolitique"
          /\ clusters[output.clusters[m]].category = "geopolitique"
          /\ clusters[output.clusters[k]].importance > clusters[output.clusters[m]].importance

\* the list selectBestClusters has returned
Returned == IF pc \in {"write", "done"} THEN selected ELSE <<>>

\* C9: the list selectBestClusters returns never holds two clusters that have
\* an article url in common.
C9_SharedUrl ==
    \A a, b \in 1..Len(Returned) :
        a # b => Urls(clusters[Returned[a]]) \cap Urls(clusters[Returned[b]]) = {}

\* of two candidate clusters that have a url in common but too few entities in
\* common to be the same topic by them, one is in the written list and the
\* other is not
C9_Witness ==
    /\ pc = "done"
    /\ \E k1, k2 \in Candidates :
          /\ k1 # k2
          /\ Urls(clusters[k1]) \cap Urls(clusters[k2]) # {}
          /\ 2 * entitySimilarity(extractEntities(ClusterText(clusters[k1])),
                                  extractEntities(ClusterText(clusters[k2]))) < SimScale
          /\ Includes(output.clusters, k1)
          /\ ~Includes(output.clusters, k2)

-----------------------------------------------------------------------------
(* Content filter, C11 and C12 *)

\* the filter has run over the loaded articles
FilterDone == pc \notin {"start", "exit1", "thrown", "prepare"}

\* the article objects that passed the filter
KeptArticles == {filtered[k] : k \in 1..Len(filtered)}

\* the distinct entries of EXCLUDED_KEYWORDS found in the lowercased text
MatchingKeywordsScan(text) ==
    {keyword \in EXCLUDED_KEYWORDS : includes(toLowerCase(text), keyword)}

\* the same, looked up for the texts of the two catalogues
MatchingMemo ==
    Map([text \in {ArticleText(Catalogue[k]) : k \in 1..Len(Catalogue)}
                  \cup {ArticleText(TextCatalogue[k]) : k \in 1..Len(TextCatalogue)} |->
            MatchingKeywordsScan(text)])

MatchingKeywords(text) ==
    IF text \in DOMAIN MatchingMemo THEN MatchingMemo[text] ELSE MatchingKeywordsScan(text)

\* C11: an article is filtered out exactly when at least 2 distinct entries
\* of EXCLUDED_KEYWORDS occur as substrings of its lowercased text; with 0 or
\* 1 distinct entries it is kept, however often the one entry occurs.
C11_FilterThreshold ==
    FilterDone =>
        \A r \in 1..Len(articles) :
            r \notin KeptArticles <=>
                Cardinality(MatchingKeywords(ArticleText(articles[r]))) >= 2

\* a feed of a text with two keywords, which is filtered out, of an upper case
\* text with one keyword and of a text repeating one keyword, which are kept
C11_Witness ==
    /\ FilterDone
    /\ Len(articles) = 3
    /\ articles[1].title = "Football match tonight"
    /\ articles[2].title = "FOOTBALL fans gather"
    /\ articles[3].title = "Goal after goal"
    /\ MatchingKeywords(ArticleText(articles[1])) = {"football", "match"}
    /\ MatchingKeywords(ArticleText(articles[2])) = {"football"}
    /\ MatchingKeywords(ArticleText(articles[3])) = {"goal"}
    /\ filtered = <<2, 3>>

\* the occurrences <<position, length>> of excluded keywords in a lowercased text
Occurrences(lower) ==
    {o \in (1..Len(lower)) \X {Len(keyword) : keyword \in EXCLUDED_KEYWORDS} :
        /\ o[1] + o[2] - 1 <= Len(lower)
        /\ SubSeq(lower, o[1], o[1] + o[2] - 1) \in EXCLUDED_KEYWORDS}

\* all keyword occurrences of the text lie inside one of them: the text
\* mentions one word or phrase of the list, once, and nothing else from it
SingleMention(text) ==
    LET lower == toLowerCase(text)
    IN  \E o \in Occurrences(lower) :
            \A inner \in Occurrences(lower) :
                o[1] <= inner[1] /\ inner[1] + inner[2] <= o[1] + o[2]

\* C12: an article whose text mentions a single word or phrase of the excluded
\* list, once, is never filtered out.
C12_SingleMentionKept ==
    FilterDone =>
        \A r \in 1..Len(articles) :
            SingleMention(ArticleText(articles[r])) => r \in KeptArticles

-----------------------------------------------------------------------------
(* cluster() on missing, malformed and empty input, C13 and C14 *)

\* cluster() has ended without a result: process.exit(1) or an uncaught error
Failed == pc \in {"exit1", "thrown"}

\* C13: when raw-articles.json is missing, is not JSON or has no articles
\* list, cluster() can only end in failure: nothing is clustered and
\* clustered-articles.json is never written; and the file is written only at
\* the end of a run that read a corpus, clustered all of it and finished the
\* selection the file holds.
C13_FatalInput ==
    /\ rawFile.kind # "ok" =>
          /\ pc = "start" \/ Failed
          /\ pc = "start" => ENABLED (ExitMissing \/ Throw) /\ ~ENABLED Load
          /\ output = NoFile
          /\ articles = <<>> /\ clusters = <<>> /\ selected = <<>>
    /\ output.written =>
          /\ rawFile.kind = "ok"
          /\ pc = "done"
          /\ i > Len(filtered)
          /\ output.clusters = selected
          /\ output.clusterCount = Len(selected)
    /\ Failed => rawFile.kind # "ok" /\ ~ENABLED Next

\* a run on a file without an articles list has thrown and written nothing
C13_Witness ==
    /\ rawFile.kind = "noArticles"
    /\ pc = "thrown"
    /\ ~output.written

\* the feed is empty, or the filter has removed every article of it
EmptyCorpus == FilterDone /\ Len(filtered) = 0

\* selectBestClusters is at a category that has no candidate
AtEmptyCategory ==
    /\ pc = "category"
    /\ catIdx <= Len(Categories)
    /\ Len(Available(Categories[catIdx])) = 0

\* C14: on an empty feed, or one the filter empties, clusterArticles returns
\* no cluster, selectBestClusters returns the empty list, and the run never
\* stops before it has written an output with clusterCount 0; no run that
\* read a feed fails, and a category without candidates is passed over.
C14_EmptyCorpus ==
    /\ rawFile.kind = "ok" /\ Len(rawFile.articles) = 0 /\ pc \in {"start", "prepare"} =>
          ENABLED (Load \/ Prepare)
    /\ EmptyCorpus =>
          /\ clusters = <<>>
          /\ multiSource = <<>> /\ singleSource = <<>>
          /\ selected = <<>>
          /\ pc # "done" => ENABLED Next
          /\ pc = "done" => output = [written |-> TRUE, clusterCount |-> 0, clusters |-> <<>>]
    /\ rawFile.kind = "ok" => ~Failed
    /\ AtEmptyCategory => ENABLED CategoryNext /\ ~ENABLED CategoryVisit

\* a run over a feed of two sport texts has written a zero-cluster output
C14_Witness ==
    /\ Len(articles) = 2
    /\ EmptyCorpus
    /\ pc = "done"
    /\ output.written /\ output.clusterCount = 0

\* a run over a feed without any article of one category has written a
\* non-empty output
C14_EmptyCategoryWitness ==
    /\ pc = "done"
    /\ output.clusterCount > 0
    /\ \E category \in {Categories[c] : c \in 1..Len(Categories)} :
            \A k \in 1..Len(clusters) : clusters[k].category # category

-----------------------------------------------------------------------------
(* Vectors, C15 and C16 *)

\* buildTfIdf has returned the vectors of the filtered documents
VectorsBuilt == FilterDone

\* a vector that is empty or has only zero weights
Degenerate(vec) == \A term \in DOMAIN vec : vec[term] = 0

\* C15: the cosine similarity of two document vectors is exactly 0 when
\* either is empty or has only zero weights, and then the combined similarity
\* is the entity part alone; such a document without entities stays alone in
\* its cluster.
C15_DegenerateVectors ==
    VectorsBuilt =>
        \A p, q \in 1..Len(vectors) :
            Degenerate(vectors[p]) \/ Degenerate(vectors[q]) =>
                /\ cosineSimilarity(vectors[p], vectors[q]) = 0
                /\ entities[p] = {} \/ entities[q] = {} => PairSimilarity(p, q) = 0
                /\ ClusteringDone /\ p # q /\ entities[p] = {} =>
                        ~SameCluster(filtered[p], filtered[q])

\* clustering has ended on a corpus holding a document without tokens, whose
\* vector is empty, next to two documents with weights above zero
C15_Witness ==
    /\ ClusteringDone
    /\ Len(vectors) = 3
    /\ \E p \in 1..3 :
            /\ documents[p] = <<>>
            /\ DOMAIN vectors[p] = {}
            /\ \A q \in (1..3) \ {p} : ~Degenerate(vectors[q])
            /\ \E k \in 1..Len(clusters) : Members(k) = {filtered[p]}

\* clustering has ended on a corpus of one document, whose weights are all 0
C15_ZeroWeightWitness ==
    /\ ClusteringDone
    /\ Len(vectors) = 1
    /\ DOMAIN vectors[1] # {}
    /\ Degenerate(vectors[1])

\* the terms of the document at position d
TermsAt(d) == {documents[d][k] : k \in 1..Len(documents[d])}

\* the term occurs in every document of the corpus
InEveryDocument(term) == \A d \in 1..Len(documents) : term \in TermsAt(d)

\* C16: buildTfIdf returns one vector per document, in document order; a
\* vector has an entry exactly for the terms of its document, no weight is
\* negative, and the weight of a term is 0 exactly when the term occurs in
\* every document, however often it occurs in the document.
C16_TfIdfBounds ==
    VectorsBuilt =>
        /\ Len(vectors) = Len(documents)
        /\ \A d \in 1..Len(documents) :
              /\ DOMAIN vectors[d] = TermsAt(d)
              /\ \A term \in TermsAt(d) :
                    /\ vectors[d][term] >= 0
                    /\ vectors[d][term] = 0 <=> InEveryDocument(term)

\* the vectors of two documents that share a term, which the first holds
\* twice: the shared term weighs 0 in both, the other term more than 0
C16_Witness ==
    /\ VectorsBuilt
    /\ documents = << <<"goal", "goal">>, <<"goal", "reached">> >>
    /\ vectors[1]["goal"] = 0
    /\ vectors[2]["goal"] = 0
    /\ vectors[2]["reached"] > 0

-----------------------------------------------------------------------------
(* Tokenizer, C17 *)

\* the characters of a string
Chars(word) == {SubSeq(word, k, k) : k \in 1..Len(word)}

\* C17: the tokens stored for a document are what tokenizing its text again
\* gives, tokenizing the tokens joined by spaces gives the same tokens, and
\* every token has at least 3 characters, all of them a-z or 0-9, and is not
\* a stop word.
C17_TokenizerStable ==
    VectorsBuilt =>
        \A d \in 1..Len(documents) :
            /\ tokenize(ArticleText(articles[filtered[d]])) = documents[d]
            /\ tokenize(join(documents[d])) = documents[d]
            /\ \A k \in 1..Len(documents[d]) :
                  /\ Len(documents[d][k]) >= 3
                  /\ Chars(documents[d][k]) \subseteq AlphaNum
                  /\ documents[d][k] \notin STOP_WORDS

\* a text with upper case, accents, punctuation, a short word and a word
\* that becomes a stop word once its accent is removed has been tokenized
C17_Witness ==
    /\ VectorsBuilt
    /\ Len(documents) = 2
    /\ ArticleText(articles[filtered[1]]) = "Goal after goal "
    /\ documents[1] = <<"goal", "goal">>
    /\ ArticleText(articles[filtered[2]]) = "Thé, déjà-vu à l'Élysée! "
    /\ documents[2] = <<"deja", "elysee">>
    /\ tokenize(join(documents[2])) = documents[2]

-----------------------------------------------------------------------------
(* Two runs, C18 *)

\* the second run over the file has written its output
SecondRunDone == previous.ran /\ pc = "done"

\* a cluster without its importance
Shape(c) == [id |-> c.id, topic |-> c.topic, category |-> c.category, articles |-> c.articles]

C18_OrderWitness ==
    /\ SecondRunDone
    /\ output.clusters # previous.selected

-----------------------------------------------------------------------------
(* Cluster builder, C19 and C20 *)

\* the position in the filtered corpus of the seed of cluster k
SeedOf(k) == CHOOSE p \in 1..Len(filtered) : filtered[p] = clusters[k].articles[1]

\* the positions after the seed of cluster k that no earlier cluster holds:
\* the documents still unassigned while cluster k is built
FreeFor(k) ==
    {j \in 1..Len(filtered) :
        /\ j > SeedOf(k)
        /\ \A earlier \in 1..(k - 1) : filtered[j] \notin Members(earlier)}

\* C19 as stated: a later unassigned document is absorbed into the cluster of
\* a seed exactly when its combined similarity to the seed is above 0.20; at
\* exactly 0.20 it is not absorbed.
C19_StrictlyAbove ==
    ClusteringDone =>
        \A k \in 1..Len(clusters) :
            \A j \in FreeFor(k) :
                filtered[j] \in Members(k) <=>
                    PairSimilarity(SeedOf(k), j) > SIMILARITY_THRESHOLD

\* C19: a later unassigned document is absorbed into the cluster of a seed
\* exactly when its combined similarity to the seed is at least 0.20, so at
\* exactly 0.20 it is absorbed; its similarity to the other members of the
\* cluster plays no role, and a cluster holds nothing but its seed and the
\* documents so absorbed.
C19_SeedThreshold ==
    ClusteringDone =>
        \A k \in 1..Len(clusters) :
            /\ \A j \in FreeFor(k) :
                  filtered[j] \in Members(k) <=>
                      PairSimilarity(SeedOf(k), j) >= SIMILARITY_THRESHOLD
            /\ Members(k) \subseteq {filtered[j] : j \in FreeFor(k) \cup {SeedOf(k)}}

\* the second of three documents has a combined similarity of exactly 0.20
\* to the first, the seed, and is a member of the seed's cluster
C19_Witness ==
    /\ ClusteringDone
    /\ Len(filtered) = 3
    /\ PairSimilarity(1, 2) = SIMILARITY_THRESHOLD
    /\ SameCluster(filtered[1], filtered[2])

\* the third of three documents is similar to the second, a member of the
\* first one's cluster, but not to the first, the seed, and is left out
C19_ChainWitness ==
    /\ ClusteringDone
    /\ Len(filtered) = 3
    /\ PairSimilarity(1, 2) >= SIMILARITY_THRESHOLD
    /\ PairSimilarity(2, 3) >= SIMILARITY_THRESHOLD
    /\ PairSimilarity(1, 3) < SIMILARITY_THRESHOLD
    /\ Members(1) = {filtered[1], filtered[2]}
    /\ Members(2) = {filtered[3]}

\* every member of cluster k has a publishedAt that parses to a date
AllDated(k) == \A r \in Members(k) : articles[r].publishedAt.iso

\* the hour of the most recent publication of cluster k, all members dated
LatestHour(k) ==
    CHOOSE latest \in {articles[r].publishedAt.hour : r \in Members(k)} :
        \A r \in Members(k) : articles[r].publishedAt.hour <= latest

\* twice the recency bonus b of cluster k: 2 or 1 by the hours h since its
\* most recent publication, 0 otherwise, which is also the case when a
\* publishedAt does not parse and there is no such h
RecencyBonus2(k) ==
    IF ~AllDated(k) THEN 0
    ELSE LET h == now - LatestHour(k)
         IN  IF h < 6 THEN 4 ELSE IF 6 <= h /\ h < 12 THEN 2 ELSE 0

\* twice 1.5 * n + 3 * s + b for cluster k
Score2(k) ==
    3 * Cardinality(Members(k))
        + 6 * Cardinality({articles[r].source : r \in Members(k)})
        + RecencyBonus2(k)

\* the whole number nearest to score2 / 2, a half going up as in Math.round,
\* kept within 1..10
RoundedAndClamped(score2) ==
    LET rounded == CHOOSE n \in 0..((score2 \div 2) + 1) :
                       2 * n - 1 <= score2 /\ score2 < 2 * n + 1
    IN  IF rounded < 1 THEN 1 ELSE IF rounded > 10 THEN 10 ELSE rounded

\* C20: the importance of a cluster of n articles from s sources whose most
\* recent publication is h hours before now is round(1.5 n + 3 s + b) kept
\* within 1..10, with b = 2 if h < 6, b = 1 if 6 <= h < 12 and b = 0
\* otherwise; b is never 3.
C20_ImportanceFormula ==
    \A k \in 1..Len(clusters) : clusters[k].importance = RoundedAndClamped(Score2(k))

\* three clusters of one dated article each have been rated, one with each
\* bonus: published 2 hours ago 1.5 + 3 + 2 = 6.5 gives 7, 6 hours ago
\* 1.5 + 3 + 1 = 5.5 gives 6, 12 hours ago 1.5 + 3 = 4.5 gives 5
C20_Witness ==
    /\ ClusteringDone
    /\ Len(clusters) = 3
    /\ \A k \in 1..3 : AllDated(k) /\ Cardinality(Members(k)) = 1
    /\ \E k \in 1..3 : now - LatestHour(k) = 2 /\ clusters[k].importance = 7
    /\ \E k \in 1..3 : now - LatestHour(k) = 6 /\ clusters[k].importance = 6
    /\ \E k \in 1..3 : now - LatestHour(k) = 12 /\ clusters[k].importance = 5

\* a cluster of a 2 hours old article and an undated one has been rated
\* without bonus: 3 + 6 = 9
C20_UndatedWitness ==
    /\ ClusteringDone
    /\ \E k \in 1..Len(clusters) :
          /\ Cardinality(Members(k)) = 2
          /\ ~AllDated(k)
          /\ \E r \in Members(k) : articles[r].publishedAt.iso
                                     /\ now - articles[r].publishedAt.hour = 2
          /\ clusters[k].importance = 9

-----------------------------------------------------------------------------
(* Similarity scorer, C21 *)

\* the vectors and entity sets have just been built: the seed loop has not
\* started, and neither changes afterwards
ScorerInputsReady == pc = "seed" /\ i = 1

\* the Jaccard index of the entity sets of documents p and q in units of
\* 1/SimScale, 0 if either set is empty
Jaccard(p, q) ==
    IF entities[p] = {} \/ entities[q] = {} THEN 0
    ELSE (Cardinality(entities[p] \cap entities[q]) * SimScale)
            \div Cardinality(entities[p] \cup entities[q])

\* the entity sets of p and q overlap by at least half of their union
StrongOverlap(p, q) ==
    /\ entities[p] # {} /\ entities[q] # {}
    /\ 2 * Cardinality(entities[p] \cap entities[q]) >= Cardinality(entities[p] \cup entities[q])

\* C21: with t the cosine similarity of two documents and e the Jaccard
\* index of their entity sets (0 when either is empty), combinedSimilarity is
\* max(t, 0.8 e) when e >= 0.5, e = 0.5 included, and 0.6 t + 0.4 e when
\* e < 0.5.
C21_CombinedScore ==
    ScorerInputsReady =>
        \A p, q \in 1..Len(vectors) :
            LET t == cosineSimilarity(vectors[p], vectors[q])
                e == Jaccard(p, q)
            IN  PairSimilarity(p, q) =
                    IF StrongOverlap(p, q)
                    THEN (IF t >= (8 * e) \div 10 THEN t ELSE (8 * e) \div 10)
                    ELSE (6 * t + 4 * e) \div 10

\* documents with e = 0.5 and no common term score 0.4, documents with
\* e = 1/3 score by the weighted sum, and documents without entities that
\* share terms score 0.6 t
C21_Witness ==
    /\ ScorerInputsReady
    /\ \E p, q \in 1..Len(vectors) :
          /\ 2 * Cardinality(entities[p] \cap entities[q]) = Cardinality(entities[p] \cup entities[q])
          /\ entities[p] # {}
          /\ cosineSimilarity(vectors[p], vectors[q]) = 0
          /\ PairSimilarity(p, q) = (4 * SimScale) \div 10
    /\ \E p, q \in 1..Len(vectors) :
          /\ 3 * Cardinality(entities[p] \cap entities[q]) = Cardinality(entities[p] \cup entities[q])
          /\ entities[p] # {}
          /\ PairSimilarity(p, q) >= (4 * Jaccard(p, q)) \div 10
    /\ \E p, q \in 1..Len(vectors) :
          /\ entities[p] = {} /\ entities[q] = {}
          /\ cosineSimilarity(vectors[p], vectors[q]) > 0
          /\ PairSimilarity(p, q) = (6 * cosineSimilarity(vectors[p], vectors[q])) \div 10

-----------------------------------------------------------------------------
(* Deduplicator, C22 *)

\* the pairs of distinct clusters that share no article url and whose
\* combined texts have an entity similarity below 0.5
TextCriterionPairs ==
    {ab \in (1..Len(clusters)) \X (1..Len(clusters)) :
        /\ ab[1] # ab[2]
        /\ Urls(clusters[ab[1]]) \cap Urls(clusters[ab[2]]) = {}
        /\ 2 * entitySimilarity(extractEntities(ClusterText(clusters[ab[1]])),
                                extractEntities(ClusterText(clusters[ab[2]]))) < SimScale}

\* the text similarity areSameTopic computes for clusters a and b: the two
\* combined texts tokenized and vectorized as a corpus of two documents
TopicTextSimilarity(a, b) ==
    LET tfidf == buildTfIdf(<<tokenize(ClusterText(clusters[a])),
                              tokenize(ClusterText(clusters[b]))>>)
    IN  cosineSimilarity(tfidf[1], tfidf[2])

\* C22: two clusters that share no url, have an entity similarity below 0.5
\* and whose combined texts tokenize to the same non-empty token sequence
\* are the same topic for areSameTopic, and are never both returned.
C22_TextCriterion ==
    ClusteringDone =>
        \A ab \in TextCriterionPairs :
            (/\ tokenize(ClusterText(clusters[ab[1]])) = tokenize(ClusterText(clusters[ab[2]]))
             /\ tokenize(ClusterText(clusters[ab[1]])) # <<>>)
            => /\ areSameTopic(clusters[ab[1]], clusters[ab[2]])
               /\ ~(Includes(Returned, ab[1]) /\ Includes(Returned, ab[2]))

\* the text similarity of areSameTopic is 0 for every pair of clusters: in a
\* corpus of two documents a term of both has idf = ln(2/2) = 0
C22_TextSimilarityIsZero ==
    ClusteringDone /\ pc = "category" /\ catIdx = 1 /\ pos = 1 =>
        \A a, b \in 1..Len(clusters) : TopicTextSimilarity(a, b) = 0

-----------------------------------------------------------------------------
(* Selector, C23 and C24 *)

\* this step visits a candidate of the per-category pass
VisitsCandidate == pc = "category" /\ pc' = "category" /\ catIdx' = catIdx /\ pos' = pos + 1

\* the candidate the per-category pass is at
Visited == Available(Categories[catIdx])[pos]

\* C23: a candidate is visited in the per-category pass only while the quota
\* of its category is not filled, and is then accepted exactly when
\* areSameTopic is false against every cluster accepted so far; nothing else
\* is added to or removed from the selection by the visit.
C23_AcceptanceRule ==
    [][VisitsCandidate =>
          /\ added < TARGET_CLUSTERS[Categories[catIdx]]
          /\ IF \A k \in 1..Len(selected) : ~areSameTopic(clusters[selected[k]], clusters[Visited])
             THEN selected' = Append(selected, Visited) /\ added' = added + 1
             ELSE selected' = selected /\ added' = added]_vars

\* the rank at which the per-category pass comes to cluster c: its category
\* first, then its place in [...multiSource, ...singleSource]
VisitRank(c) ==
    LET category == CHOOSE n \in 1..Len(Categories) : Categories[n] = clusters[c].category
        place == CHOOSE n \in 1..Len(AllSorted) : AllSorted[n] = c
    IN  category * (Len(AllSorted) + 1) + place

\* in the per-category pass a cluster has been accepted that is the same
\* topic as a candidate turned down before it
C23_Witness ==
    /\ pc = "category"
    /\ \E r \in rejected :
          \E k \in 1..Len(selected) :
              /\ areSameTopic(clusters[r], clusters[selected[k]])
              /\ VisitRank(r) < VisitRank(selected[k])

\* cluster a comes before cluster b in the priority order: several sources
\* before one source, then the higher importance, then the builder's order
Before(a, b) ==
    LET multiA == NumSources(clusters[a]) >= 2
        multiB == NumSources(clusters[b]) >= 2
    IN  \/ multiA /\ ~multiB
        \/ /\ multiA = multiB
           /\ \/ clusters[a].importance > clusters[b].importance
              \/ clusters[a].importance = clusters[b].importance /\ a < b

\* selectBestClusters has built its candidate lists
ListsBuilt == pc \in {"category", "fill", "sort"}

\* [...multiSource, ...singleSource] holds every cluster once, in priority order
PriorityOrdered ==
    /\ Len(AllSorted) = Len(clusters)
    /\ {AllSorted[x] : x \in 1..Len(AllSorted)} = 1..Len(clusters)
    /\ \A x, y \in 1..Len(AllSorted) : x < y => Before(AllSorted[x], AllSorted[y])

\* the number of clusters of the category before place x of the priority order
EarlierInCategory(category, x) ==
    Cardinality({y \in 1..(x - 1) : clusters[AllSorted[y]].category = category})

\* this step visits a candidate of the backfill pass
VisitsBackfill == pc = "fill" /\ pc' = "fill" /\ pos' = pos + 1

\* C24: the categories are processed in the order geopolitique, economie,
\* politique; the candidates of a category are visited in priority order,
\* every cluster of several sources before any cluster of one source, each
\* group by non-increasing importance with ties in builder order; the
\* backfill pass visits all clusters in that same order from its start.
C24_VisitOrder ==
    /\ [](Categories = <<"geopolitique", "economie", "politique">>)
    /\ [](ListsBuilt => PriorityOrdered)
    /\ [][/\ pc' = "category" /\ pc # "category" => catIdx' = 1 /\ pos' = 1
          /\ pc = "category" /\ catIdx' # catIdx => catIdx' = catIdx + 1 /\ pos' = 1
          /\ VisitsCandidate =>
                \E x \in 1..Len(AllSorted) :
                    /\ clusters[AllSorted[x]].category = Categories[catIdx]
                    /\ EarlierInCategory(Categories[catIdx], x) = pos - 1
                    /\ selected' \in {selected, Append(selected, AllSorted[x])}
          /\ pc' = "fill" /\ pc # "fill" => pos' = 1
          /\ VisitsBackfill =>
                selected' \in {selected, Append(selected, AllSorted[pos])}
          /\ pc \in {"category", "fill"} /\ pos' # pos => pos' \in {1, pos + 1}]_vars

\* the passes have ended with a cluster of two sources accepted before a
\* cluster of one source of the same category that is more important
C24_Witness ==
    /\ pc = "sort"
    /\ \E a, b \in 1..Len(selected) :
          /\ a < b
          /\ NumSources(clusters[selected[a]]) >= 2
          /\ NumSources(clusters[selected[b]]) = 1
          /\ clusters[selected[a]].category = clusters[selected[b]].category
          /\ clusters[selected[a]].importance < clusters[selected[b]].importance

\* the place of an article in the filtered corpus
PlaceOf(ref) == CHOOSE p \in 1..Len(filtered) : filtered[p] = ref

\* the first n characters of a text, one character at a time
RECURSIVE FirstChars(_, _)
FirstChars(text, n) ==
    IF n = 0 \/ text = "" THEN ""
    ELSE SubSeq(text, 1, 1) \o FirstChars(SubSeq(text, 2, Len(text)), n - 1)

\* cluster k carries the identity its seed gives it
SeedIdentity(k) ==
    LET c == clusters[k]
        seed == articles[c.articles[1]]
    IN  /\ c.id = "cluster-" \o ToString(k)
        /\ Len(c.articles) >= 1
        /\ \A x, y \in 1..Len(c.articles) :
              x < y => PlaceOf(c.articles[x]) < PlaceOf(c.articles[y])
        /\ c.topic = FirstChars(seed.title, 80)
        /\ Len(c.topic) <= 80
        /\ c.category = seed.category

SelectorStep ==
    \/ pc = "seed" /\ pc' = "category"
    \/ pc \in {"category", "fill", "sort"}

\* C26: no step of selectBestClusters changes the list of clusters it
\* received, neither its order nor any field of any cluster, and the list it
\* returns holds clusters of that list, each at most once.
C26_ClustersUntouched ==
    /\ [][SelectorStep => clusters' = clusters]_vars
    /\ [](pc \in {"write", "done"} =>
            /\ \A k \in 1..Len(selected) : selected[k] \in 1..Len(clusters)
            /\ \A k, l \in 1..Len(selected) : k # l => selected[k] # selected[l]
            /\ \A k \in 1..Len(clusters) : SeedIdentity(k))

\* the returned list is in another order than the builder's list
C26_Witness ==
    /\ pc \in {"write", "done"}
    /\ Len(selected) < Len(clusters)
    /\ \E k, l \in 1..Len(selected) : k < l /\ selected[k] > selected[l]

\* the places in the filtered corpus of the members of cluster k
MemberPlaces(k) == {j \in 1..Len(filtered) : filtered[j] \in Members(k)}

\* C27: when clusterArticles has returned, every document of a cluster, its seed included,
\* has a combined similarity below the threshold to the seed of every cluster
\* created earlier, and every non-seed member has a similarity of at least
\* the threshold to the seed of its own cluster.
C27_EarliestSeed ==
    pc = "category" /\ catIdx = 1 /\ pos = 1 =>
        \A l \in 1..Len(clusters) :
            \A d \in MemberPlaces(l) :
                /\ \A k \in 1..(l - 1) :
                      PairSimilarity(SeedOf(k), d) < SIMILARITY_THRESHOLD
                /\ d # SeedOf(l) =>
                      PairSimilarity(SeedOf(l), d) >= SIMILARITY_THRESHOLD

\* a later cluster has a non-seed member, and a document of a later cluster
\* is similar to the seed of an earlier one, below the threshold
C27_Witness ==
    /\ ClusteringDone
    /\ \E k, l \in 1..Len(clusters) :
          /\ k < l
          /\ MemberPlaces(l) # {SeedOf(l)}
    /\ \E k, l \in 1..Len(clusters) :
          /\ k < l
          /\ \E d \in MemberPlaces(l) : PairSimilarity(SeedOf(k), d) > 0

\* cluster k has articles of at least two sources
MultiSource(k) == Cardinality({articles[r].source : r \in Members(k)}) >= 2

\* the most recent publication of cluster k is less than 12 hours before now
Recent(k) == AllDated(k) /\ now - LatestHour(k) < 12

\* C28: every cluster has an importance of at least 5, so the lower limit of
\* 1 never decides it; every cluster of several sources has an importance of
\* at least 9, and 10 when it is less than 12 hours old.
C28_ImportanceRange ==
    \A k \in 1..Len(clusters) :
        /\ clusters[k].importance >= 5
        /\ clusters[k].importance = Min(10, (Score2(k) + 1) \div 2)
        /\ MultiSource(k) => clusters[k].importance >= 9
        /\ MultiSource(k) /\ Recent(k) => clusters[k].importance = 10

\* a cluster of one old article is rated 5, and a cluster of two articles of
\* two sources, the later one 6 to 11 hours old, is rated 10
C28_Witness ==
    /\ ClusteringDone
    /\ \E k \in 1..Len(clusters) :
          /\ Cardinality(Members(k)) = 1
          /\ ~Recent(k)
          /\ clusters[k].importance = 5
    /\ \E k \in 1..Len(clusters) :
          /\ Cardinality(Members(k)) = 2
          /\ MultiSource(k)
          /\ AllDated(k)
          /\ now - LatestHour(k) \in 6..11
          /\ clusters[k].importance = 10

\* a cluster of two sources with an article that has no readable date is
\* rated 9 although its other article is less than 12 hours old
C28_UndatedWitness ==
    /\ ClusteringDone
    /\ \E k \in 1..Len(clusters) :
          /\ MultiSource(k)
          /\ ~AllDated(k)
          /\ \E r \in Members(k) :
                articles[r].publishedAt.iso /\ now - articles[r].publishedAt.hour < 12
          /\ clusters[k].importance = 9

\* the number of clusters of the category in the selection
CountIn(sel, category) ==
    Cardinality({k \in 1..Len(sel) : clusters[sel[k]].category = category})

\* the clusters the per-category pass has neither accepted nor turned down
Unvisited == {c \in 1..Len(clusters) : ~Includes(selected, c) /\ c \notin rejected}

\* C29: when the per-category pass ends, every cluster it has neither
\* accepted nor turned down is of a category whose quota it has filled; the
\* backfill pass accepts no cluster the per-category pass turned down, so
\* every cluster it adds is of a category whose quota was filled.
C29_BackfillSource ==
    /\ [][/\ pc = "category" /\ pc' # "category" =>
                \A c \in Unvisited :
                    CountIn(selected, clusters[c].category)
                        = TARGET_CLUSTERS[clusters[c].category]
          /\ pc = "fill" => rejected' = rejected
          /\ VisitsBackfill /\ selected' # selected =>
                /\ AllSorted[pos] \in Unvisited
                /\ CountIn(selected, clusters[AllSorted[pos]].category)
                       >= TARGET_CLUSTERS[clusters[AllSorted[pos]].category]]_vars
    /\ [](pc \in {"fill", "sort", "write", "done"} =>
            \A r \in rejected : ~Includes(selected, r))

\* the backfill pass has run to its end: it added a cluster to a category
\* beyond its quota and passed over a cluster turned down earlier
C29_Witness ==
    /\ pc = "sort"
    /\ rejected # {}
    /\ Len(selected) < TotalTarget
    /\ \E category \in DOMAIN TARGET_CLUSTERS :
          CountIn(selected, category) > TARGET_CLUSTERS[category]

\* C30: areSameTopic gives the same answer for two clusters in either order
\* and is true of every cluster with itself, so a backfill step has the
\* outcome the duplicate test alone gives it: the test that the candidate is
\* not yet in the selection changes nothing.
C30_SymmetricReflexive ==
    /\ [](pc = "category" /\ catIdx = 1 /\ pos = 1 =>
            \A a, b \in 1..Len(clusters) :
                /\ areSameTopic(clusters[a], clusters[b]) = areSameTopic(clusters[b], clusters[a])
                /\ Len(clusters[a].articles) >= 1
                /\ areSameTopic(clusters[a], clusters[a]))
    /\ [][VisitsBackfill =>
            selected' = IF \E k \in 1..Len(selected) :
                              areSameTopic(clusters[selected[k]], clusters[AllSorted[pos]])
                        THEN selected
                        ELSE Append(selected, AllSorted[pos])]_vars

\* the backfill pass is about to visit a cluster that is in the selection,
\* and two different clusters are the same topic
C30_Witness ==
    /\ pc = "fill"
    /\ pos <= Len(AllSorted)
    /\ Len(selected) < TotalTarget
    /\ Includes(selected, AllSorted[pos])
    /\ \E a, b \in 1..Len(clusters) :
          a # b /\ areSameTopic(clusters[a], clusters[b])

====
